---- MODULE Spec2Model ----
(***************************************************************************)
(* Model of scripts/translate.py: the Codeforces problem translation       *)
(* pipeline (fetch, extract, translate, render, write, index update) and   *)
(* the single/batch run controller.                                        *)
(*                                                                         *)
(* File contents are modelled as the character strings the script reads    *)
(* and writes.  The module is ASCII only, so the non-ASCII literals of the *)
(* script are written with ASCII stand-ins of the same role:               *)
(*   full-width "(" , ")" and "," of the zh index entry  ->  "{" "}" ";"   *)
(*   Chinese heading words -> "zh:description", "zh:input", ...            *)
(*   the three-backquote code fence -> "~~~"                               *)
(***************************************************************************)
EXTENDS Integers, Sequences, FiniteSets, TLC

(***************************************************************************)
(* Python string primitives used by the script                             *)
(***************************************************************************)
Char(s, i) == SubSeq(s, i, i)

MinOf(S) == CHOOSE x \in S : \A y \in S : x <= y

\* characters removed by str.strip() / str.rstrip() without argument
Whitespace == {" ", "\n", "\t", "\r"}

\* str.rstrip(chars): drop the longest suffix made of characters of cs
RECURSIVE RStripSet(_, _)
RStripSet(s, cs) ==
    IF s = "" THEN ""
    ELSE IF Char(s, Len(s)) \notin cs THEN s
    ELSE RStripSet(SubSeq(s, 1, Len(s) - 1), cs)

\* str.lstrip(chars)
RECURSIVE LStripSet(_, _)
LStripSet(s, cs) ==
    IF s = "" THEN ""
    ELSE IF Char(s, 1) \notin cs THEN s
    ELSE LStripSet(SubSeq(s, 2, Len(s)), cs)

rstrip(s) == RStripSet(s, Whitespace)

strip(s) == LStripSet(RStripSet(s, Whitespace), Whitespace)

rstrip_pipe(s) == RStripSet(s, {"|"})

\* Python "needle in s"
In(needle, s) ==
    \E i \in 1..(Len(s) - Len(needle) + 1) :
        SubSeq(s, i, i + Len(needle) - 1) = needle

\* sep.join(parts[lo..hi]), computed by halving the range
RECURSIVE JoinRange(_, _, _, _)
JoinRange(parts, sep, lo, hi) ==
    IF lo > hi THEN ""
    ELSE IF lo = hi THEN parts[lo]
    ELSE LET mid == (lo + hi) \div 2
         IN  JoinRange(parts, sep, lo, mid) \o sep \o
             JoinRange(parts, sep, mid + 1, hi)

Join(parts, sep) == JoinRange(parts, sep, 1, Len(parts))

AlphaU == "ABCDEFGHIJKLMNOPQRSTUVWXYZ"

AlphaL == "abcdefghijklmnopqrstuvwxyz"

\* the character of alphabet `to` at the position c has in alphabet `from`
MapChar(c, from, to) ==
    LET at == {i \in 1..Len(from) : Char(from, i) = c}
    IN  IF at = {} THEN c ELSE Char(to, MinOf(at))

\* str.lower()
RECURSIVE lower(_)
lower(s) ==
    IF s = "" THEN ""
    ELSE MapChar(Char(s, 1), AlphaU, AlphaL) \o lower(SubSeq(s, 2, Len(s)))

\* str.upper()
RECURSIVE upper(_)
upper(s) ==
    IF s = "" THEN ""
    ELSE MapChar(Char(s, 1), AlphaL, AlphaU) \o upper(SubSeq(s, 2, Len(s)))

(***************************************************************************)
(* The table pattern of update_index:                                      *)
(*   (<header>\n\n)([^\n]+\n)([^\n]+\n)([^\n]+)                              *)
(***************************************************************************)
\* index of the first "\n" at or after position j, Len(s)+1 when there is none
NextNL(s, j) ==
    CHOOSE k \in j..(Len(s) + 1) :
        /\ k = Len(s) + 1 \/ Char(s, k) = "\n"
        /\ \A m \in j..(k - 1) : Char(s, m) # "\n"

\* the pattern matches at position i of s
MatchAt(header, s, i) ==
    LET pre == header \o "\n\n"
        j2  == i + Len(pre)
        e2  == NextNL(s, j2)
        j3  == e2 + 1
        e3  == NextNL(s, j3)
        j4  == e3 + 1
    IN  /\ i + Len(pre) - 1 <= Len(s)
        /\ SubSeq(s, i, i + Len(pre) - 1) = pre
        /\ e2 <= Len(s) /\ e2 > j2
        /\ e3 <= Len(s) /\ e3 > j3
        /\ j4 <= Len(s) /\ Char(s, j4) # "\n"

\* the leftmost position where the pattern matches, 0 when there is none
FirstMatch(header, s) ==
    LET at == {i \in 1..Len(s) : MatchAt(header, s, i)}
    IN  IF at = {} THEN 0 ELSE MinOf(at)

\* re.search(pattern, s): the leftmost match, or found = FALSE
re_search_table(header, s) ==
    LET i == FirstMatch(header, s)
    IN  IF i = 0 THEN [found |-> FALSE]
        ELSE LET pre == header \o "\n\n"
                 j2  == i + Len(pre)
                 e2  == NextNL(s, j2)
                 e3  == NextNL(s, e2 + 1)
                 e4  == NextNL(s, e3 + 1) - 1
             IN  [found |-> TRUE, start |-> i, end |-> e4,
                  pre |-> pre,
                  hdr |-> SubSeq(s, j2, e2),
                  sep |-> SubSeq(s, e2 + 1, e3),
                  row |-> SubSeq(s, e3 + 1, e4)]

(***************************************************************************)
(* update_index                                                            *)
(***************************************************************************)
zh_link(contest_id, problem_index) ==
    "/problem/" \o ToString(contest_id) \o "/" \o problem_index

en_link(contest_id, problem_index) ==
    "/en/problem/" \o ToString(contest_id) \o "/" \o problem_index

contest_header(contest_id) == "## " \o ToString(contest_id)

zh_entry(contest_id, problem_index, en_title, zh_title, tags_zh) ==
    "[" \o en_title \o " \\| " \o zh_title \o "](" \o
    zh_link(contest_id, problem_index) \o "){" \o tags_zh \o "}"

en_entry(contest_id, problem_index, en_title, tags_en) ==
    "[" \o en_title \o "](" \o en_link(contest_id, problem_index) \o ") (" \o
    Join(tags_en, ", ") \o ")"

new_block(contest_id, problem_index, rating, entry) ==
    "\n" \o contest_header(contest_id) \o "\n\n|" \o problem_index \o " [" \o
    rating \o "]|\n|:-:|\n|" \o entry \o "|\n\n"

\* the link test looking for the link of the other index file
link_present_other_language(link, content) == In("/en" \o link, content)

\* the link test that guards each index file
link_present(link, content) == In(link, content)

\* the test that decides between a new section and widening
header_present(contest_id, content) == In(contest_header(contest_id), content)

\* widening that leaves the separator row as it was
widen_without_separator(content, m, problem_index, rating, entry) ==
    LET hdr == rstrip_pipe(rstrip(m.hdr)) \o "|" \o problem_index \o " [" \o
               rating \o "]|\n"
        row == rstrip_pipe(rstrip(m.row)) \o "|" \o entry \o "|\n"
    IN  SubSeq(content, 1, m.start - 1) \o m.pre \o hdr \o m.sep \o row \o
        SubSeq(content, m.end + 1, Len(content))

\* widening of a matched table by one column
widen(content, m, problem_index, rating, entry) ==
    LET hdr == rstrip_pipe(rstrip(m.hdr)) \o "|" \o problem_index \o " [" \o
               rating \o "]|\n"
        sep == rstrip_pipe(rstrip(m.sep)) \o "|:-:|\n"
        row == rstrip_pipe(rstrip(m.row)) \o "|" \o entry \o "|\n"
    IN  SubSeq(content, 1, m.start - 1) \o m.pre \o hdr \o sep \o row \o
        SubSeq(content, m.end + 1, Len(content))

\* patching that appends a new section whenever the table is not found
patch_index_append_on_mismatch(content, contest_id, problem_index, rating, entry) ==
    LET m == re_search_table(contest_header(contest_id), content)
    IN  IF header_present(contest_id, content) /\ m.found
        THEN widen(content, m, problem_index, rating, entry)
        ELSE rstrip(content) \o
             new_block(contest_id, problem_index, rating, entry)

\* the text written back to one index file that lacks the link
patch_index(content, contest_id, problem_index, rating, entry) ==
    IF ~header_present(contest_id, content)
    THEN rstrip(content) \o new_block(contest_id, problem_index, rating, entry)
    ELSE LET m == re_search_table(contest_header(contest_id), content)
         IN  IF m.found
             THEN widen(content, m, problem_index, rating, entry)
             ELSE content

\* an index file is [exists |-> BOOLEAN, text |-> STRING]
update_index(contest_id, problem_index, en_title, zh_title, rating, tags_en, tags_zh, zh_idx, en_idx) ==
    IF ~zh_idx.exists THEN [zh |-> zh_idx, en |-> en_idx]
    ELSE IF link_present(zh_link(contest_id, problem_index), zh_idx.text)
    THEN [zh |-> zh_idx, en |-> en_idx]
    ELSE [zh |-> [exists |-> TRUE,
                  text |-> patch_index(zh_idx.text, contest_id, problem_index,
                             rating,
                             zh_entry(contest_id, problem_index, en_title,
                                      zh_title, tags_zh))],
          en |-> IF en_idx.exists
                    /\ ~link_present(en_link(contest_id, problem_index),
                                     en_idx.text)
                 THEN [exists |-> TRUE,
                       text |-> patch_index(en_idx.text, contest_id,
                                  problem_index, rating,
                                  en_entry(contest_id, problem_index, en_title,
                                           tags_en))]
                 ELSE en_idx]

(***************************************************************************)
(* Translation client                                                      *)
(***************************************************************************)
\* The natural-language fields of a record, in the order they are translated
Fields == <<"title", "description", "input_section", "output_section", "note">>

\* What the two remote backends can answer to one request
LtResponses == {"ok", "nokey", "empty", "raise"}

MmResponses == {"ok", "nokey", "status", "raise"}

\* resp: the behaviour of the LibreTranslate endpoint for this request
translate_libretranslate(text, resp) ==
    CASE resp = "ok"    -> "L:" \o text
      [] resp = "nokey" -> text
      [] resp = "empty" -> ""
      [] resp = "raise" -> ""

\* resp: the behaviour of the MyMemory endpoint for this request
translate_mymemory(text, resp) ==
    CASE resp = "ok"     -> "M:" \o text
      [] resp = "nokey"  -> text
      [] resp = "status" -> ""
      [] resp = "raise"  -> ""

\* the fallback test inverted
needs_fallback_inverted(result) == result # ""

\* "if not result" after the primary backend
needs_fallback(result) == result = ""

\* tw = [lt |-> response of the primary, mm |-> response of the secondary];
\* calls lists the backends that were contacted, in order
translate(text, tw) ==
    IF text = "" \/ strip(text) = ""
    THEN [result |-> text, calls |-> <<>>]
    ELSE LET r1 == translate_libretranslate(text, tw.lt)
         IN  IF needs_fallback(r1)
             THEN LET r2 == translate_mymemory(text, tw.mm)
                  IN  [result |-> IF r2 # "" THEN r2 ELSE text,
                       calls  |-> <<"libretranslate", "mymemory">>]
             ELSE [result |-> r1, calls |-> <<"libretranslate">>]

(***************************************************************************)
(* Problem fetcher and extractor.  A page is the parsed document reduced to *)
(* what parse_problem_html reads from it: whether the problem-statement     *)
(* container and its header exist, and the text of each block.              *)
(***************************************************************************)
NoRecord ==
    [title |-> "", full_title |-> "", description |-> "", input_section |-> "",
     output_section |-> "", examples |-> <<>>, note |-> ""]

NoTranslated ==
    [title |-> "", description |-> "", input_section |-> "",
     output_section |-> "", note |-> "", examples |-> <<>>]

NoFile == [exists |-> FALSE, text |-> ""]

UpperLetters == {Char(AlphaU, i) : i \in 1..Len(AlphaU)}

\* re.sub(r"^[A-Z]\.\s*", "", full_title)
strip_index_prefix(full_title) ==
    IF Len(full_title) >= 2 /\ Char(full_title, 1) \in UpperLetters
       /\ Char(full_title, 2) = "."
    THEN LStripSet(SubSeq(full_title, 3, Len(full_title)), Whitespace)
    ELSE full_title

\* zip(inputs, outputs): stops at the shorter list
parse_examples(inputs, outputs) ==
    LET n == IF Len(inputs) <= Len(outputs) THEN Len(inputs) ELSE Len(outputs)
    IN  [i \in 1..n |-> [input |-> inputs[i], output |-> outputs[i]]]

\* extraction that answers a record of empty fields for a page without the
\* problem-statement container
parse_problem_html_blank_record(page) ==
    IF ~page.ps \/ ~page.header THEN [kind |-> "record", rec |-> NoRecord]
    ELSE [kind |-> "record",
          rec  |-> [title          |-> strip_index_prefix(page.full_title),
                    full_title     |-> page.full_title,
                    description    |-> page.description,
                    input_section  |-> page.input_spec,
                    output_section |-> page.output_spec,
                    examples       |-> parse_examples(page.inputs, page.outputs),
                    note           |-> page.note]]

\* result kinds: "empty" is {}, "raise" is the AttributeError of a missing
\* header, "record" carries the extracted record
parse_problem_html(page) ==
    IF ~page.ps THEN [kind |-> "empty"]
    ELSE IF ~page.header THEN [kind |-> "raise"]
    ELSE [kind |-> "record",
          rec  |-> [title          |-> IF page.full_title # ""
                                       THEN strip_index_prefix(page.full_title)
                                       ELSE "",
                    full_title     |-> page.full_title,
                    description    |-> page.description,
                    input_section  |-> page.input_spec,
                    output_section |-> page.output_spec,
                    examples       |-> parse_examples(page.inputs, page.outputs),
                    note           |-> page.note]]

\* http: "neterr" when the GET or raise_for_status raises, else "ok";
\* result kinds: "none" (None), "empty" ({}), "record"
fetch_problem(http, page) ==
    IF http # "ok" THEN [kind |-> "none"]
    ELSE LET r == parse_problem_html(page)
         IN  IF r.kind = "raise" THEN [kind |-> "none"] ELSE r

\* "if not problem" in run_translate
fetch_failed(problem) == problem.kind \in {"none", "empty"}

\* resp.kind: "raise" (request or JSON error), "notok" (status # OK), "ok";
\* resp.problems: the problems of the standings answer, each
\* [index, has_rating, rating, tags]
get_problem_meta(problem_index, resp) ==
    IF resp.kind = "raise" THEN [has |-> TRUE, rating |-> "?", tags |-> <<>>]
    ELSE IF resp.kind = "notok" THEN [has |-> FALSE]
    ELSE LET hit == {i \in 1..Len(resp.problems) :
                        resp.problems[i].index = problem_index}
         IN  IF hit = {} THEN [has |-> TRUE, rating |-> "?", tags |-> <<>>]
             ELSE LET p == resp.problems[MinOf(hit)]
                  IN  [has    |-> TRUE,
                       rating |-> IF p.has_rating THEN ToString(p.rating)
                                  ELSE "?",
                       tags   |-> p.tags]

TAG_MAP == ("math" :> "zh:math") @@ ("dp" :> "DP") @@ ("greedy" :> "zh:greedy")

tags_to_chinese(tags) ==
    Join([i \in 1..Len(tags) |->
            IF lower(tags[i]) \in DOMAIN TAG_MAP THEN TAG_MAP[lower(tags[i])]
            ELSE tags[i]], ";")

\* tr: for every field, the responses of the two backends to its request
translate_problem(problem, tr) ==
    LET t(f) == translate(problem[f], tr[f])
    IN  [rec |-> [title          |-> t("title").result,
                  description    |-> t("description").result,
                  input_section  |-> t("input_section").result,
                  output_section |-> t("output_section").result,
                  note           |-> IF problem.note # "" THEN t("note").result
                                     ELSE "",
                  examples       |-> problem.examples],
         calls |-> [f \in {Fields[i] : i \in 1..Len(Fields)} |->
                      IF f = "note" /\ problem.note = "" THEN <<>>
                      ELSE t(f).calls]]

(***************************************************************************)
(* Document renderer                                                       *)
(***************************************************************************)
\* the code fence of the templates (three backquotes in the script)
Fence == "~~~"

RECURSIVE Flatten(_)
Flatten(ss) == IF Len(ss) = 0 THEN <<>> ELSE Head(ss) \o Flatten(Tail(ss))

\* the numeric suffix of the i-th input heading of the translated document
zh_input_suffix(i, n) == IF n > 1 THEN " " \o ToString(i) ELSE ""

zh_example_lines(ex, i, n) ==
    <<"", "### zh:input" \o zh_input_suffix(i, n),
      "", Fence, strip(ex.input), Fence, "",
      "### zh:output",
      "", Fence, strip(ex.output), Fence, "">>

en_example_lines(ex, i, n) ==
    <<"", "### Input",
      "", Fence, strip(ex.input), Fence, "",
      "### Output",
      "", Fence, strip(ex.output), Fence, "">>

build_zh_md(problem, translated, contest_id, problem_index, author) ==
    LET n == Len(translated.examples)
        lines ==
          <<"---", "author: " \o author, "---", "",
            "# " \o problem_index \o ". " \o translated.title, "",
            "## zh:description", "", translated.description, "">>
          \o (IF translated.input_section # ""
              THEN <<"## zh:input-format", "", translated.input_section, "">>
              ELSE <<>>)
          \o (IF translated.output_section # ""
              THEN <<"## zh:output-format", "", translated.output_section, "">>
              ELSE <<>>)
          \o (IF n > 0
              THEN <<"## zh:examples">> \o
                   Flatten([i \in 1..n |->
                              zh_example_lines(translated.examples[i], i, n)])
              ELSE <<>>)
          \o (IF translated.note # ""
              THEN <<"## zh:note", "", translated.note, "">>
              ELSE <<>>)
    IN  strip(Join(lines, "\n")) \o "\n"

build_en_md(problem, contest_id, problem_index) ==
    LET n == Len(problem.examples)
        lines ==
          <<"# " \o problem_index \o ". " \o problem.title, "",
            problem.description, "">>
          \o (IF problem.input_section # ""
              THEN <<"## Input", "", problem.input_section, "">>
              ELSE <<>>)
          \o (IF problem.output_section # ""
              THEN <<"## Output", "", problem.output_section, "">>
              ELSE <<>>)
          \o (IF n > 0
              THEN <<"## Examples">> \o
                   Flatten([i \in 1..n |->
                              en_example_lines(problem.examples[i], i, n)])
              ELSE <<>>)
          \o (IF problem.note # ""
              THEN <<"## Note", "", problem.note, "">>
              ELSE <<>>)
    IN  strip(Join(lines, "\n")) \o "\n"

(***************************************************************************)
(* Run controller: run_translate                                           *)
(***************************************************************************)
FieldSet == {Fields[i] : i \in 1..Len(Fields)}

\* the skip test with the force flag inverted
skip_run_when_forced(zh_file, force) == zh_file.exists /\ force

\* "zh_file.exists() and not force"
skip_run(zh_file, force) == zh_file.exists /\ ~force

\* w is what the outside world answers during this run:
\*   w.http, w.page  the problem page request and the page it returns
\*   w.meta          the answer of the standings API
\*   w.tr            for every field, the answers of the two translation backends
\* The result carries the return value, the files after the run and what the
\* run did (requests made, records built).
run_translate(contest_id, problem_index_arg, author, force, w, zi, ei, zf, ef) ==
    LET problem_index == upper(problem_index_arg)
        key == <<contest_id, problem_index>>
        idle == [page_fetches |-> 0, meta_fetches |-> 0,
                 tcalls |-> [f \in FieldSet |-> <<>>],
                 problem |-> NoRecord, translated |-> NoTranslated,
                 wrote |-> FALSE, indexed |-> FALSE]
    IN  IF skip_run(zf[key], force)
        THEN [ret |-> TRUE, zh_idx |-> zi, en_idx |-> ei,
              zh_files |-> zf, en_files |-> ef,
              did |-> [idle EXCEPT !.page_fetches = 0], skipped |-> TRUE]
        ELSE
        LET fetched == fetch_problem(w.http, w.page)
        IN  IF fetch_failed(fetched)
            THEN [ret |-> FALSE, zh_idx |-> zi, en_idx |-> ei,
                  zh_files |-> zf, en_files |-> ef,
                  did |-> [idle EXCEPT !.page_fetches = 1], skipped |-> FALSE]
            ELSE
            LET problem == fetched.rec
                meta == get_problem_meta(problem_index, w.meta)
                tp == translate_problem(problem, w.tr)
                translated == tp.rec
                rating == IF meta.has THEN meta.rating ELSE "?"
                tags_en == IF meta.has THEN meta.tags ELSE <<>>
                tags_zh == tags_to_chinese(tags_en)
                zh_md == build_zh_md(problem, translated, contest_id,
                                     problem_index, author)
                en_md == build_en_md(problem, contest_id, problem_index)
                idx == update_index(contest_id, problem_index, problem.title,
                                    translated.title, rating, tags_en, tags_zh,
                                    zi, ei)
            IN  [ret |-> TRUE, zh_idx |-> idx.zh, en_idx |-> idx.en,
                 zh_files |-> [zf EXCEPT ![key] =
                                 [exists |-> TRUE, text |-> zh_md]],
                 en_files |-> [ef EXCEPT ![key] =
                                 [exists |-> TRUE, text |-> en_md]],
                 did |-> [page_fetches |-> 1, meta_fetches |-> 1,
                          tcalls |-> tp.calls,
                          problem |-> problem, translated |-> translated,
                          wrote |-> TRUE, indexed |-> TRUE],
                 skipped |-> FALSE]

(***************************************************************************)
(* What the outside world can answer: pages, API answers, backend answers  *)
(***************************************************************************)
\* bounds of the model
MaxBatch == 2

MaxExamples == 3

\* the --author default of main
Author == "Eternity-Sky"

\* the problems of the model: contest 1 and contest 11, index A and index A1
Pairs == {<<1, "A1">>, <<1, "A">>, <<11, "A">>}

\* command-line arguments naming them (the index may be given in lower case)
Args == {<<1, "A1">>, <<1, "a">>, <<11, "A">>}

\* the items of the configuration lists of the index checks
ListArgs == {<<1, "a">>}

\* a problem page with i sample inputs and o sample outputs
Page(i, o, note) ==
    [ps |-> TRUE, header |-> TRUE, full_title |-> "A. T", description |-> "D",
     input_spec |-> "I", output_spec |-> "O",
     inputs |-> [k \in 1..i |-> ToString(k) \o "\n"],
     outputs |-> [k \in 1..o |-> ToString(k + 1) \o "\n"],
     note |-> note]

PageNoContainer == [Page(1, 1, "") EXCEPT !.ps = FALSE, !.header = FALSE]

PageNoHeader == [Page(1, 1, "") EXCEPT !.header = FALSE]

MetaOk ==
    [kind |-> "ok",
     problems |-> <<[index |-> "A", has_rating |-> TRUE, rating |-> 800,
                     tags |-> <<"dp", "Math">>],
                    [index |-> "A1", has_rating |-> FALSE, rating |-> 0,
                     tags |-> <<"x">>]>>]

MetaRaise == [kind |-> "raise", problems |-> <<>>]

MetaNotOk == [kind |-> "notok", problems |-> <<>>]

BothOk == [lt |-> "ok", mm |-> "ok"]

BothFail == [lt |-> "raise", mm |-> "status"]

BaseWorld ==
    [http |-> "ok", page |-> Page(1, 1, "N"), meta |-> MetaOk,
     tr |-> [f \in FieldSet |-> BothOk]]

\* worlds of the index and run controller checks
Worlds ==
    {BaseWorld,
     [BaseWorld EXCEPT !.http = "neterr"],
     [BaseWorld EXCEPT !.page = PageNoContainer],
     [BaseWorld EXCEPT !.page = PageNoHeader]}

\* worlds of the renderer check: pages with every number of sample tests up to
\* MaxExamples, with and without a note, and pages whose sample inputs and
\* outputs differ in number
WorldsR ==
    {[BaseWorld EXCEPT !.page = Page(i, i, n)] :
        i \in 0..MaxExamples, n \in {"", "N"}}
    \cup {[BaseWorld EXCEPT !.page = Page(MaxExamples, 1, "")],
          [BaseWorld EXCEPT !.page = Page(2, MaxExamples, "")]}

ArgsR == {<<1, "a">>}

\* answers of the two backends to the request for one field
FieldAnswers ==
    {BothOk, BothFail,
     [lt |-> "nokey", mm |-> "ok"],
     [lt |-> "empty", mm |-> "ok"],
     [lt |-> "raise", mm |-> "nokey"],
     [lt |-> "empty", mm |-> "raise"]}

\* worlds of the translation check: one field answered in any way while the
\* others are translated by the primary backend, every field failing on both
\* backends, and pages with an empty note or an empty input section
WorldsT ==
    {[BaseWorld EXCEPT !.tr = [BaseWorld.tr EXCEPT ![f] = a]] :
        f \in FieldSet, a \in FieldAnswers}
    \cup {[BaseWorld EXCEPT !.tr = [f \in FieldSet |-> a], !.page = pg] :
            a \in {BothFail, [lt |-> "empty", mm |-> "ok"]},
            pg \in {Page(1, 1, ""), [Page(1, 1, "N") EXCEPT !.input_spec = " "]}}

ArgsT == {<<1, "A">>}

\* worlds of the batch check: every kind of failure of one item
WorldsB ==
    {BaseWorld,
     [BaseWorld EXCEPT !.http = "neterr"],
     [BaseWorld EXCEPT !.page = PageNoContainer],
     [BaseWorld EXCEPT !.meta = MetaRaise,
                       !.tr = [f \in FieldSet |-> BothFail]]}

ArgsB == {<<1, "a">>, <<11, "A">>}

\* a configuration item; contest = 0 or problem = "" stands for a missing key
Items(P) ==
    {[contest |-> k[1], problem |-> k[2]] : k \in P}
        \cup {[contest |-> 0, problem |-> "A"]}

Configs(P) == UNION {[1..n -> Items(P)] : n \in 0..MaxBatch}

\* index files a checkout can hold before the first run: none, an empty one,
\* or one whose contest 1 section was reformatted by hand (an extra blank
\* line after the header)
EmptyIndex == [exists |-> TRUE, text |-> ""]

EditedZhIndex ==
    [exists |-> TRUE,
     text |-> "\n## 1\n\n\n|B [?]|\n|:-:|\n|[T \\| L:T](/problem/1/B){}|\n\n"]

EditedEnIndex ==
    [exists |-> TRUE,
     text |-> "\n## 1\n\n\n|B [?]|\n|:-:|\n|[T](/en/problem/1/B) ()|\n\n"]

InitialIndexes ==
    {<<EmptyIndex, EmptyIndex>>, <<NoFile, EmptyIndex>>,
     <<EmptyIndex, NoFile>>, <<EditedZhIndex, EditedEnIndex>>}

(***************************************************************************)
(* State                                                                   *)
(***************************************************************************)
VARIABLES
    zh_idx,     \* docs/zh/problem/index.md
    en_idx,     \* docs/en/problem/index.md
    zh_files,   \* docs/zh/problem/<contest>/<INDEX>.md
    en_files,   \* docs/en/problem/<contest>/<INDEX>.md
    pc,         \* "idle": no process running; "batch": main is in its loop
    config,     \* the list read from --config
    item,       \* position of the batch loop in config
    force,      \* args.force of the batch process
    calls,      \* the run_translate invocations of the batch process
    last,       \* the most recent run_translate invocation of the running
                \* (or last finished) process and what it did
    tick        \* flips at every run_translate invocation

vars == <<zh_idx, en_idx, zh_files, en_files, pc, config, item, force, calls,
          last, tick>>

NoCall ==
    [cid |-> 0, pid |-> "", force |-> FALSE, w |-> BaseWorld, ret |-> FALSE,
     skipped |-> FALSE,
     did |-> [page_fetches |-> 0, meta_fetches |-> 0,
              tcalls |-> [f \in FieldSet |-> <<>>],
              problem |-> NoRecord, translated |-> NoTranslated,
              wrote |-> FALSE, indexed |-> FALSE]]

Init ==
    /\ \E ix \in InitialIndexes : zh_idx = ix[1] /\ en_idx = ix[2]
    /\ zh_files = [k \in Pairs |-> NoFile]
    /\ en_files = [k \in Pairs |-> NoFile]
    /\ pc = "idle"
    /\ config = <<>>
    /\ item = 1
    /\ force = FALSE
    /\ calls = <<>>
    /\ last = NoCall
    /\ tick = 0

\* one invocation of run_translate on the current files
Invoke(cid, pid, f, w) ==
    \E r \in {run_translate(cid, pid, Author, f, w,
                            zh_idx, en_idx, zh_files, en_files)} :
        /\ zh_idx' = r.zh_idx
        /\ en_idx' = r.en_idx
        /\ zh_files' = r.zh_files
        /\ en_files' = r.en_files
        /\ last' = [cid |-> cid, pid |-> upper(pid), force |-> f, w |-> w,
                    ret |-> r.ret, skipped |-> r.skipped, did |-> r.did]
        /\ tick' = 1 - tick

\* a loop that stops at the first item whose run reports failure
loop_after_break_on_failure(i, n, ret) == IF ret THEN i + 1 ELSE n + 1

\* the position of the batch loop after an item; n = len(config), ret is the
\* value run_translate returned (ignored by main)
loop_after(i, n, ret) == i + 1

\* main with positional arguments: one run_translate, then the process ends
MainSingle(W, A) ==
    /\ pc = "idle"
    /\ \E k \in A, f \in BOOLEAN, w \in W : Invoke(k[1], k[2], f, w)
    /\ UNCHANGED <<pc, config, item, force, calls>>

\* main with --config: read the list and enter the loop
MainBatchStart(P) ==
    /\ pc = "idle"
    /\ \E cfg \in Configs(P), f \in BOOLEAN :
          /\ config' = cfg
          /\ force' = f
    /\ pc' = "batch"
    /\ item' = 1
    /\ calls' = <<>>
    /\ last' = NoCall
    /\ UNCHANGED <<zh_idx, en_idx, zh_files, en_files, tick>>

\* one iteration of the batch loop
BatchItem(W) ==
    /\ pc = "batch"
    /\ item <= Len(config)
    /\ LET it == config[item]
       IN  IF it.contest # 0 /\ it.problem # ""
           THEN \E w \in W :
                   /\ Invoke(it.contest, it.problem, force, w)
                   /\ calls' = Append(calls, [item |-> it, ret |-> last'.ret])
                   /\ item' = loop_after(item, Len(config), last'.ret)
           ELSE /\ item' = item + 1
                /\ UNCHANGED <<zh_idx, en_idx, zh_files, en_files, last,
                               calls, tick>>
    /\ UNCHANGED <<pc, config, force>>

\* the loop is exhausted and the process ends
BatchEnd ==
    /\ pc = "batch"
    /\ item > Len(config)
    /\ pc' = "idle"
    /\ config' = <<>>
    /\ item' = 1
    /\ force' = FALSE
    /\ calls' = <<>>
    /\ UNCHANGED <<zh_idx, en_idx, zh_files, en_files, last, tick>>

Next ==
    \/ MainSingle(Worlds, Args)
    \/ MainBatchStart(ListArgs)
    \/ BatchItem(Worlds)
    \/ BatchEnd

Spec == Init /\ [][Next]_vars

\* a checkout whose two index files exist and are empty
InitEmpty == Init /\ zh_idx = EmptyIndex /\ en_idx = EmptyIndex

\* the program run on pages with varying sample tests
NextR ==
    \/ MainSingle(WorldsR, ArgsR)
    \/ MainBatchStart(ArgsR)
    \/ BatchItem({BaseWorld})
    \/ BatchEnd

SpecR == InitEmpty /\ [][NextR]_vars

\* the program run against translation backends that fail in every way
NextT ==
    \/ MainSingle(WorldsT, ArgsT)
    \/ MainBatchStart(ArgsT)
    \/ BatchItem({BaseWorld})
    \/ BatchEnd

SpecT == InitEmpty /\ [][NextT]_vars

\* the program in batch mode with failing items; the loop of main is
\* sequential and every request has a timeout, so an enabled iteration and
\* the end of the loop are eventually taken
NextB ==
    \/ MainSingle(WorldsB, ArgsB)
    \/ MainBatchStart(ArgsB)
    \/ BatchItem(WorldsB)
    \/ BatchEnd

FairSpec ==
    InitEmpty /\ [][NextB]_vars
        /\ WF_vars(BatchItem(WorldsB)) /\ WF_vars(BatchEnd)

\* the same program on a checkout whose index files were never edited by hand
InitClean == Init /\ zh_idx # EditedZhIndex

SpecClean == InitClean /\ [][Next]_vars

(***************************************************************************)
(* Reading an index file: lines, sections, table cells                     *)
(***************************************************************************)
\* a step that is one run_translate invocation; last' describes it
RunStep == tick' # tick

\* the run described by last' went through to update_index
Indexed == RunStep /\ last'.did.indexed

Occurrences(needle, s) ==
    Cardinality({i \in 1..(Len(s) - Len(needle) + 1) :
                    SubSeq(s, i, i + Len(needle) - 1) = needle})

\* the link target of a problem as it is written in an index entry
ZhTarget(k) == "(/problem/" \o ToString(k[1]) \o "/" \o k[2] \o ")"

EnTarget(k) == "(/en/problem/" \o ToString(k[1]) \o "/" \o k[2] \o ")"

\* every problem that can be listed in an index file of the model
Listed == Pairs \cup {<<1, "B">>}

LineStarts(t) == {i \in 1..Len(t) : i = 1 \/ Char(t, i - 1) = "\n"}

LineAt(t, i) == IF i > Len(t) THEN "" ELSE SubSeq(t, i, NextNL(t, i) - 1)

\* start of the line after the one that starts at i
NextStart(t, i) == IF i > Len(t) THEN i ELSE NextNL(t, i) + 1

\* positions of the section header lines of contest cid
HeaderLines(t, cid) ==
    {i \in LineStarts(t) : LineAt(t, i) = "## " \o ToString(cid)}

AnyHeaderLines(t) ==
    {i \in LineStarts(t) : i + 2 <= Len(t) /\ SubSeq(t, i, i + 2) = "## "}

\* the cell separators of a table line: the bars that are not escaped
Bars(l) == {k \in 1..Len(l) : Char(l, k) = "|" /\ (k = 1 \/ Char(l, k - 1) # "\\")}

RECURSIVE Ascending(_)
Ascending(S) ==
    IF S = {} THEN <<>> ELSE <<MinOf(S)>> \o Ascending(S \ {MinOf(S)})

\* the cells of a table line
Cells(l) ==
    LET b == Ascending(Bars(l))
    IN  [c \in 1..(Len(b) - 1) |-> SubSeq(l, b[c] + 1, b[c + 1] - 1)]

IsTableLine(l) == Len(l) >= 2 /\ Char(l, 1) = "|" /\ Char(l, Len(l)) = "|"

\* the three lines that follow the header at i and the blank line after it
TableAt(t, i) ==
    LET b  == NextStart(t, i)
        s1 == NextStart(t, b)
        s2 == NextStart(t, s1)
        s3 == NextStart(t, s2)
    IN  [blank |-> b <= Len(t) /\ LineAt(t, b) = "",
         hdr |-> LineAt(t, s1), sep |-> LineAt(t, s2), row |-> LineAt(t, s3),
         after |-> LineAt(t, NextStart(t, s3))]

\* the section whose header is at i has the shape the widening step expects
WellFormedSection(t, i) ==
    LET tb == TableAt(t, i)
        m  == re_search_table(LineAt(t, i), t)
    IN  /\ tb.blank
        /\ IsTableLine(tb.hdr) /\ IsTableLine(tb.sep) /\ IsTableLine(tb.row)
        /\ ~IsTableLine(tb.after)
        /\ Len(Cells(tb.hdr)) >= 1
        /\ Len(Cells(tb.sep)) = Len(Cells(tb.hdr))
        /\ Len(Cells(tb.row)) = Len(Cells(tb.hdr))
        /\ m.found /\ m.start = i

\* contest cid has exactly one section in t and it is well formed
HasSection(t, cid) ==
    /\ Cardinality(HeaderLines(t, cid)) = 1
    /\ \A i \in HeaderLines(t, cid) : WellFormedSection(t, i)

\* the table of the (single) section of contest cid, as lists of cells
SectionCells(t, cid) ==
    LET tb == TableAt(t, CHOOSE i \in HeaderLines(t, cid) : TRUE)
    IN  [hdr |-> Cells(tb.hdr), sep |-> Cells(tb.sep), row |-> Cells(tb.row)]

ContestIds == {k[1] : k \in Listed}

(***************************************************************************)
(* C1: each problem is linked at most once in the translated index and at  *)
(* most once in the original-language index, whatever runs were made, and  *)
(* a run for a problem whose link an index file already holds leaves that  *)
(* file as it was.                                                         *)
(***************************************************************************)
LinkedAtMostOnce ==
    \A k \in Listed :
        /\ Occurrences(ZhTarget(k), zh_idx.text) <= 1
        /\ Occurrences(EnTarget(k), en_idx.text) <= 1

PresentLinkKeepsFile ==
    RunStep =>
        LET k == <<last'.cid, last'.pid>>
        IN  /\ In(ZhTarget(k), zh_idx.text) => zh_idx' = zh_idx
            /\ In(EnTarget(k), en_idx.text) => en_idx' = en_idx

\* C1: no problem is linked twice in either index file, and a run for a
\* problem whose link a file already holds leaves that file unchanged
C1_NoDuplicateLinks == []LinkedAtMostOnce /\ [][PresentLinkKeepsFile]_vars

\* a forced re-run went through update_index for a problem already linked
C1_Witness ==
    /\ last.force /\ last.did.indexed
    /\ Occurrences(ZhTarget(<<last.cid, last.pid>>), zh_idx.text) = 1
    /\ Occurrences(EnTarget(<<last.cid, last.pid>>), en_idx.text) = 1
    /\ \E k \in Pairs : k # <<last.cid, last.pid>> /\ In(ZhTarget(k), zh_idx.text)

(***************************************************************************)
(* C2: a run for a problem index not yet listed under a contest that has a *)
(* section widens that contest's table by exactly one column (header cell, *)
(* separator cell, data cell with the link) in both index files and leaves *)
(* every other column of every contest as it was; also when the new index  *)
(* is a prefix of a listed one (A after A1).                               *)
(***************************************************************************)
IsPrefix(a, b) == Len(a) <= Len(b) /\ SubSeq(b, 1, Len(a)) = a

\* the section of contest c in new is the one in old plus one last column
WidenedByOne(old, new, c, pid, target) ==
    /\ HasSection(new, c)
    /\ LET o == SectionCells(old, c)
           n == SectionCells(new, c)
           w == Len(o.hdr)
       IN  /\ Len(n.hdr) = w + 1 /\ Len(n.sep) = w + 1 /\ Len(n.row) = w + 1
           /\ SubSeq(n.hdr, 1, w) = o.hdr
           /\ SubSeq(n.sep, 1, w) = o.sep
           /\ SubSeq(n.row, 1, w) = o.row
           /\ IsPrefix(pid \o " [", n.hdr[w + 1])
           /\ n.sep[w + 1] = ":-:"
           /\ In(target, n.row[w + 1])
    /\ \A d \in ContestIds \ {c} :
          /\ Cardinality(HeaderLines(new, d)) = Cardinality(HeaderLines(old, d))
          /\ HasSection(old, d) =>
                HasSection(new, d) /\ SectionCells(new, d) = SectionCells(old, d)

\* the run of this step meets the precondition of C2
NewIndexOfListedContest ==
    /\ Indexed
    /\ zh_idx.exists /\ en_idx.exists
    /\ HasSection(zh_idx.text, last'.cid) /\ HasSection(en_idx.text, last'.cid)
    /\ ~In(ZhTarget(<<last'.cid, last'.pid>>), zh_idx.text)
    /\ ~In(EnTarget(<<last'.cid, last'.pid>>), en_idx.text)

WidensBoth ==
    /\ WidenedByOne(zh_idx.text, zh_idx'.text, last'.cid, last'.pid,
                    ZhTarget(<<last'.cid, last'.pid>>))
    /\ WidenedByOne(en_idx.text, en_idx'.text, last'.cid, last'.pid,
                    EnTarget(<<last'.cid, last'.pid>>))

\* C2: a run for a new problem index of a listed contest widens that
\* contest's table by exactly one column in both index files
C2_NewIndexWidensTable == [][NewIndexOfListedContest => WidensBoth]_vars

(***************************************************************************)
(* C3: update_index for a contest without a section header in an existing  *)
(* index file appends a new section (header line, blank line, one-column   *)
(* table, blank line) so that the index then links the problem; also when  *)
(* the contest id is a prefix of a listed one (1 after 11).                *)
(***************************************************************************)
\* new is old, right-stripped, followed by a one-column section of contest c
AppendedSection(old, new, c, pid, target) ==
    LET base == rstrip(old)
        i    == Len(base) + 2
        tb   == TableAt(new, i)
    IN  /\ IsPrefix(base \o "\n", new)
        /\ HeaderLines(new, c) = {i}
        /\ WellFormedSection(new, i)
        /\ Len(Cells(tb.hdr)) = 1
        /\ IsPrefix(pid \o " [", Cells(tb.hdr)[1])
        /\ Cells(tb.sep)[1] = ":-:"
        /\ In(target, Cells(tb.row)[1])
        /\ new = SubSeq(new, 1, i - 1) \o "## " \o ToString(c) \o "\n\n" \o
                 tb.hdr \o "\n" \o tb.sep \o "\n" \o tb.row \o "\n\n"

AppendsMissingContest ==
    LET c == last'.cid
        k == <<last'.cid, last'.pid>>
    IN  /\ (Indexed /\ zh_idx.exists /\ HeaderLines(zh_idx.text, c) = {})
              => AppendedSection(zh_idx.text, zh_idx'.text, c, k[2], ZhTarget(k))
        /\ (Indexed /\ zh_idx.exists /\ en_idx.exists
                /\ HeaderLines(en_idx.text, c) = {})
              => AppendedSection(en_idx.text, en_idx'.text, c, k[2], EnTarget(k))

\* C3: update_index for a contest without a section header appends a new
\* one-column section that links the problem
C3_MissingContestAppended == [][AppendsMissingContest]_vars

(***************************************************************************)
(* C4: once the output files of a problem are written, a run for the same  *)
(* problem without force-overwrite is skipped before any fetch,            *)
(* translation or write, reports success, and changes neither markdown     *)
(* file nor either index file.                                             *)
(***************************************************************************)
SecondRunSkipped ==
    (RunStep /\ ~last'.force /\ zh_files[<<last'.cid, last'.pid>>].exists)
        => /\ last'.skipped /\ last'.ret
           /\ last'.did.page_fetches = 0 /\ last'.did.meta_fetches = 0
           /\ \A f \in FieldSet : last'.did.tcalls[f] = <<>>
           /\ ~last'.did.wrote /\ ~last'.did.indexed
           /\ UNCHANGED <<zh_files, en_files, zh_idx, en_idx>>

\* C4: a second run for the same problem without force-overwrite is skipped
\* and changes no file
C4_RerunIsSkipped == [][SecondRunSkipped]_vars

\* a run was skipped because the problem's files were already written
C4_Witness ==
    /\ last.skipped /\ ~last.force
    /\ zh_files[<<last.cid, last.pid>>].exists
    /\ en_files[<<last.cid, last.pid>>].exists

(***************************************************************************)
(* C8: a run that is not skipped and whose page fetch fails, or whose page *)
(* lacks the top-level container, reports failure and stops: no metadata   *)
(* fetch, no translation call, no markdown file written, both index files  *)
(* unchanged.                                                              *)
(***************************************************************************)
FetchFailureStops ==
    (RunStep /\ ~last'.skipped /\ (last'.w.http # "ok" \/ ~last'.w.page.ps))
        => /\ ~last'.ret
           /\ last'.did.page_fetches = 1 /\ last'.did.meta_fetches = 0
           /\ \A f \in FieldSet : last'.did.tcalls[f] = <<>>
           /\ ~last'.did.wrote /\ ~last'.did.indexed
           /\ UNCHANGED <<zh_files, en_files, zh_idx, en_idx>>

\* C8: a run whose fetch fails or whose page lacks the container returns
\* failure without metadata fetch, translation, write or index change
C8_FetchFailureStops == [][FetchFailureStops]_vars

\* a forced run over existing files hit a page without the container
C8_Witness ==
    /\ last.cid # 0 /\ ~last.skipped /\ last.w.http = "ok" /\ ~last.w.page.ps
    /\ ~last.ret
    /\ zh_files[<<last.cid, last.pid>>].exists
    /\ zh_idx.exists /\ zh_idx.text # ""

(***************************************************************************)
(* C9: on index files that start empty or hold only sections written by    *)
(* update_index, every contest section keeps the shape the widening step   *)
(* expects: header line, one blank line, exactly three table lines (header *)
(* row, separator row, one data row) with the same number of cells, and    *)
(* the table pattern finds that section's table.                           *)
(***************************************************************************)
\* C9: every contest section of either index file has the header, blank
\* line and three-line table shape with equally many cells per line
C9_SectionsKeepShape ==
    /\ zh_idx.exists =>
          \A i \in AnyHeaderLines(zh_idx.text) : WellFormedSection(zh_idx.text, i)
    /\ en_idx.exists =>
          \A i \in AnyHeaderLines(en_idx.text) : WellFormedSection(en_idx.text, i)

\* both index files hold a section that was widened after a second section
\* had been appended behind it
C9_Witness ==
    /\ zh_idx.exists /\ en_idx.exists
    /\ Cardinality(AnyHeaderLines(zh_idx.text)) = 2
    /\ Cardinality(AnyHeaderLines(en_idx.text)) = 2
    /\ HasSection(zh_idx.text, 1) /\ Len(SectionCells(zh_idx.text, 1).row) = 2
    /\ HasSection(en_idx.text, 1) /\ Len(SectionCells(en_idx.text, 1).row) = 2
    /\ HasSection(zh_idx.text, 11)
    /\ MinOf(HeaderLines(zh_idx.text, 1)) < MinOf(HeaderLines(zh_idx.text, 11))
    /\ last.cid = 1 /\ last.pid = "A1" /\ last.did.indexed /\ ~last.force

(***************************************************************************)
(* C10: with the contest's section header present but the text after it    *)
(* not in the three-line table shape, the pattern does not match.          *)
(* Original claim: update_index then appends a new section with a          *)
(* duplicate header.  Amended: update_index then writes the file back      *)
(* unchanged; no section is appended and no link is added.                 *)
(***************************************************************************)
\* t holds the header line of contest c but the table pattern finds nothing
HeaderWithoutTable(t, c) ==
    /\ HeaderLines(t, c) # {}
    /\ ~re_search_table(contest_header(c), t).found

MismatchAppendsDuplicate ==
    (Indexed /\ zh_idx.exists
        /\ ~In(ZhTarget(<<last'.cid, last'.pid>>), zh_idx.text)
        /\ HeaderWithoutTable(zh_idx.text, last'.cid))
        => Cardinality(HeaderLines(zh_idx'.text, last'.cid))
              = Cardinality(HeaderLines(zh_idx.text, last'.cid)) + 1

\* C10 as originally stated: a header without matching table makes
\* update_index append a section with a duplicate header
C10_Original_DuplicateHeader == [][MismatchAppendsDuplicate]_vars

MismatchKeepsFile ==
    /\ (Indexed /\ zh_idx.exists
           /\ ~In(ZhTarget(<<last'.cid, last'.pid>>), zh_idx.text)
           /\ HeaderWithoutTable(zh_idx.text, last'.cid))
          => zh_idx' = zh_idx
    /\ (Indexed /\ zh_idx.exists /\ en_idx.exists
           /\ ~In(ZhTarget(<<last'.cid, last'.pid>>), zh_idx.text)
           /\ ~In(EnTarget(<<last'.cid, last'.pid>>), en_idx.text)
           /\ HeaderWithoutTable(en_idx.text, last'.cid))
          => en_idx' = en_idx

\* C10 as amended: a header without matching table makes update_index
\* write the index file back unchanged
C10_MismatchLeavesIndexUnchanged == [][MismatchKeepsFile]_vars

\* update_index ran for contest 1 on the hand-edited files and the problem is
\* still not linked
C10_Witness ==
    /\ last.did.indexed /\ last.cid = 1 /\ last.pid = "A"
    /\ zh_idx = EditedZhIndex /\ en_idx = EditedEnIndex
    /\ HeaderWithoutTable(zh_idx.text, 1) /\ HeaderWithoutTable(en_idx.text, 1)
    /\ ~In(ZhTarget(<<1, "A">>), zh_idx.text)
    /\ zh_files[<<1, "A">>].exists

(***************************************************************************)
(* C5: in both rendered documents, a record with exactly one example gets  *)
(* input and output headings without numeric suffix, and a record with two *)
(* or more examples gets the headings of its i-th example numbered i,      *)
(* counting from 1.                                                        *)
(***************************************************************************)
HasLine(t, l) == In("\n" \o l \o "\n", t) \/ IsPrefix(l \o "\n", t)

LineCount(t, l) == Occurrences("\n" \o l \o "\n", t)

\* the headings of document t for n examples, input heading hi, output ho
HeadingsNumbered(t, n, hi, ho) ==
    /\ n = 1 => LineCount(t, hi) = 1 /\ LineCount(t, ho) = 1
    /\ n >= 2 =>
          \A i \in 1..n :
              /\ LineCount(t, hi \o " " \o ToString(i)) = 1
              /\ LineCount(t, ho \o " " \o ToString(i)) = 1

\* C5: one example has unnumbered input and output headings, two or more
\* examples have headings numbered from 1, in both documents
C5_ExampleHeadings ==
    last.did.wrote =>
        LET n == Len(last.did.problem.examples)
            k == <<last.cid, last.pid>>
        IN  /\ HeadingsNumbered(zh_files[k].text, n, "### zh:input",
                                "### zh:output")
            /\ HeadingsNumbered(en_files[k].text, n, "### Input", "### Output")

(***************************************************************************)
(* C6: for each natural-language field (title, description, input_section, *)
(* output_section, non-empty note) the secondary backend is tried only     *)
(* after the primary returned empty or raised; a field that fails on both  *)
(* backends is emitted as the original text; every other field is still    *)
(* translated and the run writes both files and updates the indices.       *)
(***************************************************************************)
PrimaryFailed(a) == a.lt \in {"empty", "raise"}

SecondaryFailed(a) == a.mm \in {"status", "raise"}

\* the fields of the record that are sent to translation
Translatable(problem) == {f \in FieldSet : strip(problem[f]) # ""}

\* C6: the secondary backend is tried only after the primary failed, a field
\* failing on both keeps its source text, and the run still completes
C6_TranslationFailsSoft ==
    (last.cid # 0 /\ ~last.skipped /\ last.did.page_fetches = 1
        /\ last.w.http = "ok" /\ last.w.page.ps /\ last.w.page.header)
    => LET p == last.did.problem
           t == last.did.translated
           k == <<last.cid, last.pid>>
       IN  /\ \A f \in Translatable(p) :
                 /\ last.did.tcalls[f] \in {<<"libretranslate">>,
                                            <<"libretranslate", "mymemory">>}
                 /\ Len(last.did.tcalls[f]) = 2 <=> PrimaryFailed(last.w.tr[f])
                 /\ (PrimaryFailed(last.w.tr[f]) /\ SecondaryFailed(last.w.tr[f]))
                       => t[f] = p[f]
                 /\ last.w.tr[f] = BothOk => t[f] = "L:" \o p[f]
           /\ last.ret /\ last.did.wrote /\ last.did.indexed
           /\ zh_files[k] = [exists |-> TRUE,
                             text |-> build_zh_md(p, t, k[1], k[2], Author)]
           /\ en_files[k] = [exists |-> TRUE,
                             text |-> build_en_md(p, k[1], k[2])]
           /\ In(ZhTarget(k), zh_idx.text) /\ In(EnTarget(k), en_idx.text)

\* the description failed on both backends while the other fields were
\* translated, and the run wrote its files
C6_Witness ==
    /\ last.did.wrote /\ last.ret
    /\ last.did.tcalls["description"] = <<"libretranslate", "mymemory">>
    /\ last.did.translated.description = last.did.problem.description
    /\ last.did.translated.title = "L:" \o last.did.problem.title
    /\ last.did.translated.note = "L:" \o last.did.problem.note
    /\ last.did.problem.note # ""
    /\ In("\n" \o last.did.problem.description \o "\n",
          zh_files[<<last.cid, last.pid>>].text)

(***************************************************************************)
(* C7: in batch mode run_translate is invoked once for every item of the   *)
(* list that names a contest and a problem, in list order; a failing item  *)
(* never keeps the later items from being run; the batch eventually gets   *)
(* through all items.                                                      *)
(***************************************************************************)
\* "if cid and pid"
Usable(it) == it.contest # 0 /\ it.problem # ""

RECURSIVE UsableItems(_)
UsableItems(cfg) ==
    IF cfg = <<>> THEN <<>>
    ELSE (IF Usable(Head(cfg)) THEN <<Head(cfg)>> ELSE <<>>)
             \o UsableItems(Tail(cfg))

Invoked == [i \in 1..Len(calls) |-> calls[i].item]

InvokedInOrder ==
    pc = "batch" => Invoked = UsableItems(SubSeq(config, 1, item - 1))

BatchDone ==
    pc = "batch" /\ item = Len(config) + 1 /\ Invoked = UsableItems(config)

\* C7: the batch invokes run_translate for every usable item in list order,
\* whatever fails, and eventually gets through the whole list
C7_BatchRunsEveryItem == []InvokedInOrder /\ ((pc = "batch") ~> BatchDone)

\* a batch got through its whole list after its first item had failed
C7_Witness ==
    /\ BatchDone /\ Len(config) = MaxBatch /\ Len(calls) = MaxBatch
    /\ ~calls[1].ret /\ calls[Len(calls)].ret
====
